---- MODULE Spec2Model ----
(***************************************************************************)
(* One-dimensional effective-stress site response analysis (o3soil.sra):   *)
(* the stage runner SRA1D / run_sra, the recorder registry                 *)
(* O3SRAOutputs.start_recorders and the result reducer                     *)
(* O3SRAOutputs.results_to_dict.                                           *)
(*                                                                         *)
(* Units.  Solver time is counted in ticks of analysis_dt / NSub, so a     *)
(* full step is NSub ticks and a substep is one tick.  Depths are the      *)
(* y coordinates of the nodes (0 at the surface, negative downwards) in    *)
(* half element-thickness units, so that element mid depths are integers.  *)
(***************************************************************************)
EXTENDS Integers, Sequences, FiniteSets, TLC

VARIABLES
    pc,          \* position of run_sra / execute_dynamic
    sp,          \* the soil profile handed to SRA1D: [thick, mats, hloads]
    eles,        \* self.eles: the formulation of every element of the column
    base_imp,    \* SRA1D.base_imp
    cache_path,  \* SRA1D.cache_path is set (TRUE) or None (FALSE)
    args,        \* arguments of execute_dynamic: outs, analysis_time, rec_dt, asig_dt
    rec_dt,      \* SRA1D.rec_dt / O3SRAOutputs.rec_dt (0 before it is set)
    t,           \* solver time, in ticks
    nSamples,    \* samples every armed recorder has written
    nextRec,     \* solver time at which the recorders write their next sample
    calls,       \* the o3.analyze calls of the dynamic stage, in order
    wiped,       \* o3.wipe(osi) has been called
    recs,        \* recorders allocated in the solver, in allocation order
    ods,         \* O3SRAOutputs.ods: kind -> handle(s)
    armed,       \* start_recorders returned and set self.ods
    polls,       \* collect() calls made on each recorder
    unlinked,    \* recorders whose file was removed by a consuming collect()
    out_dict,    \* O3SRAOutputs.out_dict (meaningful when reduced)
    reduced,     \* out_dict is not None
    nCalls,      \* results_to_dict calls made so far
    files,       \* the files under cache_path: item -> lines of text fields
    loaded,      \* the call of load_results_from_files: [done, items, od, err]
    faults,      \* failed full steps the solver may still report in this run
    err          \* the exception that ended the run or the last reducer call ("" if none)

vars == <<pc, sp, eles, base_imp, cache_path, args, rec_dt, t, nSamples, nextRec, calls,
          wiped, recs, ods, armed, polls, unlinked, out_dict, reduced, nCalls, files,
          loaded, faults, err>>

----------------------------------------------------------------------------
(* Bounds of the model *)

MaxEles == 3        \* elements in the column
MaxOuts == 3        \* output kinds in one Output Request
MaxTime == 8        \* analysis_time, in half steps (MaxTime * NSub / 2 ticks)
MaxFail == 2        \* failed full steps the solver may report in one run
MaxExtraCalls == 2  \* results_to_dict calls a client makes after the run

(* Program constants *)

NSub == 10          \* substeps of the retry: o3.analyze(osi, 10, analysis_dt / 10)
ShearSample == 2    \* the index applied to a single-element collect(): collect()[2]

analysis_dt == NSub \* a full step, in ticks

----------------------------------------------------------------------------
(* Small helpers *)

EmptyMap == [x \in {} |-> 0]

Put(f, k, v) == [x \in (DOMAIN f) \cup {k} |-> IF x = k THEN v ELSE f[x]]

Abs(x) == IF x < 0 THEN -x ELSE x

RECURSIVE SumTo(_, _)
SumTo(f, n) == IF n = 0 THEN 0 ELSE f[n] + SumTo(f, n - 1)

Range(s) == {s[i] : i \in DOMAIN s}

Reverse(s) == [i \in 1..Len(s) |-> s[Len(s) + 1 - i]]

----------------------------------------------------------------------------
(* Column geometry: SRA1D.__init__ and start_recorders *)

n_node_rows(th) == Len(th) + 1

\* node_depths = insert(-cumsum(thickness), 0, 0); row i (1-based) is python row i-1
node_depths(th) == [i \in 1..(Len(th) + 1) |-> -SumTo(th, i - 1)]

\* ele_depths = (node_depths[1:] + node_depths[:-1]) / 2
ele_depths(th) == [i \in 1..Len(th) |-> (node_depths(th)[i + 1] + node_depths(th)[i]) \div 2]

----------------------------------------------------------------------------
(* The Output Request: an ordered mapping (a python dict) kind -> 'all' or a
   list of depths.  A request value is [all, depths]. *)

Kinds == <<"ACCX", "DISPX", "TAU", "TAUX", "STRS", "STRSX">>

All == [all |-> TRUE, depths |-> <<>>]

Explicit(ds) == [all |-> FALSE, depths |-> ds]

HasKey(o, k) == \E i \in DOMAIN o : o[i].k = k

Get(o, k) == o[CHOOSE i \in DOMAIN o : o[i].k = k].req

\* isinstance(outs[k], str) and outs[k] == 'all'
IsAll(o, k) == HasKey(o, k) /\ Get(o, k).all

----------------------------------------------------------------------------
(* Recorder registry: O3SRAOutputs.start_recorders *)

ArgMinLast(ds, d) ==
    CHOOSE i \in DOMAIN ds :
        /\ \A j \in DOMAIN ds : Abs(ds[i] - d) <= Abs(ds[j] - d)
        /\ \A j \in DOMAIN ds : j > i => Abs(ds[j] - d) > Abs(ds[i] - d)

ArgMinSigned(ds, d) ==
    CHOOSE i \in DOMAIN ds :
        /\ \A j \in DOMAIN ds : ds[i] - d <= ds[j] - d
        /\ \A j \in DOMAIN ds : j < i => ds[j] - d > ds[i] - d

\* np.argmin(abs(depths - d)): the first index at which the distance is least
ArgMin(ds, d) ==
    CHOOSE i \in DOMAIN ds :
        /\ \A j \in DOMAIN ds : Abs(ds[i] - d) <= Abs(ds[j] - d)
        /\ \A j \in DOMAIN ds : j < i => Abs(ds[j] - d) > Abs(ds[i] - d)

\* isinstance(ele, o3.element.SSPquad) or isinstance(ele, o3.element.SSPquadUP)
Supported == {"SSPquad", "SSPquadUP"}

\* a recorder over every node row / every element (NodesToArrayCache,
\* ElementsToArrayCache); the reaction recorder covers sn.flatten(): left and
\* right node of every row
Batched(res, n) == [res |-> res, batched |-> TRUE, locs |-> [i \in 1..n |-> i]]

\* a recorder at one node or element (NodeToArrayCache, ElementToArrayCache)
Single(res, loc) == [res |-> res, batched |-> FALSE, locs |-> <<loc>>]

OneHandle(h) == [list |-> FALSE, hs |-> <<h>>]

HandleList(hs) == [list |-> TRUE, hs |-> hs]

\* ods[k] = <one batched recorder>
AllocBatched(st, k, res, n) ==
    [st EXCEPT !.recs = Append(st.recs, Batched(res, n)),
               !.ods = Put(st.ods, k, OneHandle(Len(st.recs) + 1))]

\* ods[k] = []; for i in range(len(ds)): ods[k].append(<recorder at argmin>)
AllocList(st, k, res, depths, ds) ==
    [st EXCEPT !.recs = st.recs \o [i \in 1..Len(ds) |-> Single(res, ArgMin(depths, ds[i]))],
               !.ods = Put(st.ods, k, HandleList([i \in 1..Len(ds) |-> Len(st.recs) + i]))]

Fail(st, e) == [st EXCEPT !.err = e]

RegNodeKind(st, o, th, otype) ==
    IF IsAll(o, otype)
    THEN AllocBatched(st, otype, IF otype = "ACCX" THEN "accel" ELSE "disp", n_node_rows(th))
    ELSE \* the explicit branch reads outs['ACCX'] and writes ods['ACCX'] for both kinds
         IF ~HasKey(o, "ACCX") THEN Fail(st, "KeyError")
         ELSE IF Get(o, "ACCX").all THEN Fail(st, "TypeError")
         ELSE AllocList(st, "ACCX", "accel", node_depths(th), Get(o, "ACCX").depths)

RegEleKind(st, o, th, fm, otype, res, checkForm) ==
    IF checkForm /\ \E e \in DOMAIN fm : fm[e] \notin Supported
    THEN Fail(st, "AssertionError")
    ELSE IF IsAll(o, otype)
         THEN AllocBatched(st, otype, res, Len(th))
         ELSE AllocList(st, otype, res, ele_depths(th), Get(o, otype).depths)

RegTAUXSkip(st, o, th) ==
    IF IsAll(o, "TAUX") /\ ~IsAll(o, "STRSX")
    THEN AllocBatched(st, "TAUX", "reaction", n_node_rows(th))
    ELSE st

\* TAUX 'all' gets the reaction recorder over sn.flatten(); a list gets nothing
RegTAUX(st, o, th) ==
    IF IsAll(o, "TAUX")
    THEN AllocBatched(st, "TAUX", "reaction", n_node_rows(th))
    ELSE st

RegSTRSXNoSkip(st, o, th) ==
    IF IsAll(o, "STRSX") THEN AllocBatched(st, "DISPX", "disp", n_node_rows(th)) ELSE st

\* STRSX 'all' shares the all-node displacement recorder of DISPX
RegSTRSX(st, o, th) ==
    IF IsAll(o, "STRSX")
    THEN IF HasKey(o, "DISPX") THEN st
         ELSE AllocBatched(st, "DISPX", "disp", n_node_rows(th))
    ELSE st

\* one pass of "for otype in outs"
RegisterKind(st, o, th, fm, otype) ==
    CASE otype \in {"ACCX", "DISPX"} -> RegNodeKind(st, o, th, otype)
      [] otype = "TAU"   -> RegEleKind(st, o, th, fm, "TAU", "stress", TRUE)
      [] otype = "TAUX"  -> RegTAUX(st, o, th)
      [] otype = "STRS"  -> RegEleKind(st, o, th, fm, "STRS", "strain", FALSE)
      [] otype = "STRSX" -> RegSTRSX(st, o, th)

RECURSIVE RegisterFrom(_, _, _, _, _)
RegisterFrom(st, o, th, fm, i) ==
    IF i > Len(o) \/ st.err # "" THEN st
    ELSE RegisterFrom(RegisterKind(st, o, th, fm, o[i].k), o, th, fm, i + 1)

\* the whole of start_recorders on the request o, the layer thicknesses th and
\* the element formulations fm: [ods, recs, err]
start_recorders(o, th, fm) ==
    RegisterFrom([ods |-> EmptyMap, recs |-> <<>>, err |-> ""], o, th, fm, 1)

----------------------------------------------------------------------------
(* What the solver's recorders hold.  A raw value is named by the recorder
   kind, the node row or element, the side of the row (1 left, 2 right, 0 for
   none), the channel and the sample index; Num is its numeric value. *)

\* channels an element recorder emits per element, by material and recorder kind
Emits(mat, res) ==
    IF res = "stress"
    THEN (IF mat \in {"PressureIndependMultiYield", "PressureDependMultiYield"}
          THEN <<"sxx", "syy", "szz", "sxy", "eta">>
          ELSE <<"sxx", "syy", "sxy">>)
    ELSE <<"exx", "eyy", "gxy">>

\* the recorder options table read by load_recorder_options(): the rows
\* (mat, form, recorder, outs) with outs already split at '-'.  One material
\* has a row of another formulation too, one has its stress row twice and
\* PM4Sand has no row
df == << [mat |-> "PressureIndependMultiYield", form |-> "PlaneStrain",
          recorder |-> "stress", outs |-> <<"sxx", "syy", "szz", "sxy", "eta">>],
         [mat |-> "PressureIndependMultiYield", form |-> "ThreeD",
          recorder |-> "stress", outs |-> <<"sxx", "syy", "szz", "sxy", "syz", "szx", "eta">>],
         [mat |-> "PressureDependMultiYield", form |-> "PlaneStrain",
          recorder |-> "stress", outs |-> <<"sxx", "syy", "szz", "sxy", "eta">>],
         [mat |-> "PressureDependMultiYield", form |-> "PlaneStrain",
          recorder |-> "stress", outs |-> <<"sxx", "syy", "szz", "sxy", "eta">>],
         [mat |-> "PressureDependMultiYield", form |-> "PlaneStrain",
          recorder |-> "strain", outs |-> <<"exx", "eyy", "gxy">>],
         [mat |-> "PressureIndependMultiYield", form |-> "PlaneStrain",
          recorder |-> "strain", outs |-> <<"exx", "eyy", "gxy">>],
         [mat |-> "ElasticIsotropic", form |-> "PlaneStrain",
          recorder |-> "stress", outs |-> <<"sxx", "syy", "sxy">>],
         [mat |-> "ElasticIsotropic", form |-> "PlaneStrain",
          recorder |-> "strain", outs |-> <<"exx", "eyy", "gxy">>] >>

Chan(loc, side, ch) == [loc |-> loc, side |-> side, ch |-> ch]

EleChans(e, mat, res) == [c \in 1..Len(Emits(mat, res)) |-> Chan(e, 0, Emits(mat, res)[c])]

RECURSIVE EleBlocks(_, _, _)
EleBlocks(mats, res, n) ==
    IF n = 0 THEN <<>> ELSE EleBlocks(mats, res, n - 1) \o EleChans(n, mats[n], res)

\* the columns of the sample matrix of recorder r, in order
Channels(r, mats) ==
    CASE r.res \in {"accel", "disp"} ->
             [c \in 1..Len(r.locs) |-> Chan(r.locs[c], 0, "x")]
      [] r.res = "reaction" ->
             [c \in 1..(2 * Len(r.locs)) |-> Chan(r.locs[(c + 1) \div 2], 2 - (c % 2), "x")]
      [] r.batched -> EleBlocks(mats, r.res, Len(r.locs))
      [] OTHER -> EleChans(r.locs[1], mats[r.locs[1]], r.res)

\* collect(): the samples x channels matrix of recorder r after n samples
Matrix(r, mats, n) ==
    [s \in 1..n |-> [c \in 1..Len(Channels(r, mats)) |->
        [res |-> r.res, loc |-> Channels(r, mats)[c].loc, side |-> Channels(r, mats)[c].side,
         ch |-> Channels(r, mats)[c].ch, s |-> s]]]

\* .T
Transpose(m, ncols) == [c \in 1..ncols |-> [s \in 1..Len(m) |-> m[s][c]]]

\* the number a raw value stands for (always even, so that halving is exact)
Num(v) == 2 * (v.loc * v.loc + 3 * v.side + v.s * (v.loc + v.side) + v.s * v.s)

----------------------------------------------------------------------------
(* Result reducer: O3SRAOutputs.results_to_dict.  The reducer state is
   [od, polls, unlinked, err]; cx holds what it reads: ods, recs, the element
   materials, the layer thicknesses, the sample count and rec_dt. *)

area == 1    \* O3SRAOutputs.area

\* handle.collect(unlink): reads the recorder's file, which a consuming collect
\* has removed, and removes it when unlink is set
Poll(rs, h, unlink) ==
    [rs EXCEPT !.polls[h] = @ + 1,
               !.unlinked = IF unlink /\ h \notin rs.unlinked THEN @ \cup {h} ELSE @,
               !.err = IF h \in rs.unlinked THEN "OSError" ELSE rs.err]

Raw(cx, h) == Matrix(cx.recs[h], cx.mats, cx.n)

Vals(cx, h) == Transpose(Raw(cx, h), Len(Channels(cx.recs[h], cx.mats)))

\* displacement-derived strain: (vals[1:] - vals[:-1]) / d_incs[:, np.newaxis],
\* each value kept as <<difference, depth increment>>
ReduceSTRSX(rs, cx) ==
    IF "DISPX" \notin DOMAIN cx.ods THEN Fail(rs, "KeyError")
    ELSE LET h == cx.ods["DISPX"].hs[1]
             p == Poll(rs, h, FALSE)
             vals == Vals(cx, h)
             depths == node_depths(cx.th)
         IN IF p.err # "" THEN p
            ELSE [p EXCEPT !.od = Put(p.od, "STRSX",
                     [i \in 1..(Len(vals) - 1) |-> [s \in 1..cx.n |->
                         <<Num(vals[i + 1][s]) - Num(vals[i][s]), depths[i + 1] - depths[i]>>]])]

\* what one single-location handle contributes: collect()[2] for TAU and STRS,
\* collect() otherwise
ListRow(otype, m) == IF otype \in {"TAU", "STRS"} THEN m[ShearSample + 1] ELSE m

\* for i in range(len(self.ods[otype])): self.out_dict[otype].append(...)
RECURSIVE ReduceList(_, _, _, _)
ReduceList(rs, cx, otype, i) ==
    IF i > Len(cx.ods[otype].hs) \/ rs.err # "" THEN rs
    ELSE LET h == cx.ods[otype].hs[i]
             p == Poll(rs, h, TRUE)
         IN IF p.err # "" THEN p
            ELSE IF otype \in {"TAU", "STRS"} /\ cx.n < ShearSample + 1
                 THEN Fail(p, "IndexError")
                 ELSE ReduceList([p EXCEPT !.od[otype] = Append(@, ListRow(otype, Raw(cx, h)))],
                                 cx, otype, i + 1)

IndexOf(seq, x) == CHOOSE i \in DOMAIN seq : seq[i] = x /\ \A j \in 1..(i - 1) : seq[j] # x

\* the rows of df for one element: mat, form 'PlaneStrain' and the recorder kind
SchemaRows(mat, otype) ==
    SelectSeq(df, LAMBDA row : /\ row.mat = mat
                               /\ row.form = "PlaneStrain"
                               /\ row.recorder = (IF otype = "TAU" THEN "stress" ELSE "strain"))

ShearName(otype) == IF otype = "TAU" THEN "sxy" ELSE "gxy"

RECURSIVE ReduceElesFirstWidth(_, _, _, _, _, _)
ReduceElesFirstWidth(rs, cx, otype, vals, e, cur_ind) ==
    IF e > Len(cx.mats) \/ rs.err # "" THEN rs
    ELSE LET dfe == SchemaRows(cx.mats[e], otype)
         IN IF Len(dfe) # 1 THEN Fail(rs, "AssertionError")
            ELSE IF ShearName(otype) \notin Range(dfe[1].outs) THEN Fail(rs, "ValueError")
            ELSE LET oind == IndexOf(dfe[1].outs, ShearName(otype)) - 1
                 IN IF cur_ind + oind + 1 > Len(vals) THEN Fail(rs, "IndexError")
                    ELSE ReduceElesFirstWidth(
                             [rs EXCEPT !.od[otype] = Append(@, vals[cur_ind + oind + 1])],
                             cx, otype, vals, e + 1,
                             cur_ind + Len(SchemaRows(cx.mats[1], otype)[1].outs))

RECURSIVE ReduceElesAnyRow(_, _, _, _, _, _)
ReduceElesAnyRow(rs, cx, otype, vals, e, cur_ind) ==
    IF e > Len(cx.mats) \/ rs.err # "" THEN rs
    ELSE LET dfe == SchemaRows(cx.mats[e], otype)
         IN IF Len(dfe) = 0 THEN Fail(rs, "AssertionError")
            ELSE IF ShearName(otype) \notin Range(dfe[1].outs) THEN Fail(rs, "ValueError")
            ELSE LET oind == IndexOf(dfe[1].outs, ShearName(otype)) - 1
                 IN IF cur_ind + oind + 1 > Len(vals) THEN Fail(rs, "IndexError")
                    ELSE ReduceElesAnyRow([rs EXCEPT !.od[otype] = Append(@, vals[cur_ind + oind + 1])],
                                          cx, otype, vals, e + 1, cur_ind + Len(dfe[1].outs))

\* for ele in self.eles: ... self.out_dict[otype].append(vals[cur_ind + oind])
RECURSIVE ReduceEles(_, _, _, _, _, _)
ReduceEles(rs, cx, otype, vals, e, cur_ind) ==
    IF e > Len(cx.mats) \/ rs.err # "" THEN rs
    ELSE LET dfe == SchemaRows(cx.mats[e], otype)
         IN IF Len(dfe) # 1 THEN Fail(rs, "AssertionError")
            ELSE IF ShearName(otype) \notin Range(dfe[1].outs) THEN Fail(rs, "ValueError")
            ELSE LET oind == IndexOf(dfe[1].outs, ShearName(otype)) - 1
                 IN IF cur_ind + oind + 1 > Len(vals) THEN Fail(rs, "IndexError")
                    ELSE ReduceEles([rs EXCEPT !.od[otype] = Append(@, vals[cur_ind + oind + 1])],
                                    cx, otype, vals, e + 1, cur_ind + Len(dfe[1].outs))

TauxRowsNoTrim(vals) ==
    [j \in 1..(Len(vals) \div 2) |-> [s \in 1..Len(vals[1]) |->
        Num(vals[2 * j - 1][s]) + Num(vals[2 * j][s])]]

TauxRowsStaticSign(vals) ==
    LET n == Len(vals) \div 2
        L(j, s) == Num(vals[2 * j - 1][s])
        R(j, s) == Num(vals[2 * j][s])
        diff(s) == [j \in 1..n |-> L(j, s) - R(j, s)]
        f_dyn(j, s) == L(j, s) + R(j, s)
    IN [i \in 1..(n - 1) |-> [s \in 1..Len(vals[1]) |->
            ((f_dyn(i + 1, s) + f_dyn(i, s)) \div 2 + SumTo(diff(s), i)) \div area]]

\* reaction-derived stress: vals[::2] are the left nodes, vals[1::2] the right
TauxRows(vals) ==
    LET n == Len(vals) \div 2
        L(j, s) == Num(vals[2 * j - 1][s])
        R(j, s) == Num(vals[2 * j][s])
        diff(s) == [j \in 1..n |-> L(j, s) - R(j, s)]
        f_static(i, s) == -SumTo(diff(s), i)
        f_dyn(j, s) == L(j, s) + R(j, s)
        f_dyn_av(i, s) == (f_dyn(i + 1, s) + f_dyn(i, s)) \div 2
    IN [i \in 1..(n - 1) |-> [s \in 1..Len(vals[1]) |->
            (f_dyn_av(i, s) + f_static(i, s)) \div area]]

ReduceBatchedNoSchema(rs, cx, otype) ==
    LET h == cx.ods[otype].hs[1]
        p == Poll(rs, h, TRUE)
    IN IF p.err # "" THEN p ELSE [p EXCEPT !.od = Put(p.od, otype, Vals(cx, h))]

\* the single batched handle of a kind: vals = self.ods[otype].collect().T
ReduceBatched(rs, cx, otype) ==
    LET h == cx.ods[otype].hs[1]
        p == Poll(rs, h, TRUE)
        vals == Vals(cx, h)
    IN IF p.err # "" THEN p
       ELSE IF otype \in {"TAU", "STRS"}
            THEN ReduceEles([p EXCEPT !.od = Put(p.od, otype, <<>>)], cx, otype, vals, 1, 0)
            ELSE IF otype = "TAUX"
                 THEN [p EXCEPT !.od = Put(p.od, otype, TauxRows(vals))]
                 ELSE [p EXCEPT !.od = Put(p.od, otype, vals)]

\* one pass of "for otype in items"
ReduceKind(rs, cx, otype) ==
    IF otype \notin DOMAIN cx.ods
    THEN (IF otype = "STRSX" THEN ReduceSTRSX(rs, cx) ELSE rs)
    ELSE IF cx.ods[otype].list
         THEN ReduceList([rs EXCEPT !.od = Put(rs.od, otype, <<>>)], cx, otype, 1)
         ELSE ReduceBatched(rs, cx, otype)

RECURSIVE ReduceFrom(_, _, _, _)
ReduceFrom(rs, cx, items, i) ==
    IF i > Len(items) \/ rs.err # "" THEN rs
    ELSE ReduceFrom(ReduceKind(rs, cx, items[i]), cx, items, i + 1)

\* np.arange(0, len(out_dict[k][0])) * rec_dt for k = 'ACCX', else 'TAU'
TimeAxis(rs, cx) ==
    IF rs.err # "" THEN rs
    ELSE IF "ACCX" \in DOMAIN rs.od
         THEN [rs EXCEPT !.od = Put(rs.od, "time",
                  [i \in 1..Len(rs.od["ACCX"][1]) |-> (i - 1) * cx.rec_dt])]
         ELSE IF "TAU" \in DOMAIN rs.od
              THEN [rs EXCEPT !.od = Put(rs.od, "time",
                       [i \in 1..Len(rs.od["TAU"][1]) |-> (i - 1) * cx.rec_dt])]
              ELSE rs

\* the body of "if self.out_dict is None:"
Reduce(rs, cx, items) == TimeAxis(ReduceFrom([rs EXCEPT !.od = EmptyMap], cx, items, 1), cx)

MemoisedNever(o) == FALSE

\* "if self.out_dict is None:" is false
Memoised(o) == o.reduced

\* results_to_dict as a whole, on [od, polls, unlinked, err, reduced]: the
\* reduction runs only while out_dict is None, which it stops being before the
\* first kind is reduced
results_to_dict(o, cx) ==
    IF Memoised(o)
    THEN [o EXCEPT !.err = ""]
    ELSE Reduce([od |-> o.od, polls |-> o.polls, unlinked |-> o.unlinked, err |-> ""],
                cx, [i \in 1..Len(cx.outs) |-> cx.outs[i].k]) @@ [reduced |-> TRUE]

----------------------------------------------------------------------------
(* Result cache: results_to_files and load_results_from_files.  An array is
   [shape, vals] with vals in row-major order; a file is a sequence of lines,
   a line a sequence of text fields. *)

RECURSIVE Flat(_)
Flat(m) == IF m = <<>> THEN <<>> ELSE m[1] \o Flat(Tail(m))

\* np.asarray(od[item]): time is 1-D, the list of the collect() matrices of
\* single-node handles is 3-D, every other item is rows x samples
AsArray(cx, item, v) ==
    IF item = "time" THEN [shape |-> <<Len(v)>>, vals |-> v]
    ELSE IF item \in DOMAIN cx.ods /\ cx.ods[item].list /\ item \notin {"TAU", "STRS"}
         THEN [shape |-> <<Len(v), Len(v[1]), Len(v[1][1])>>, vals |-> Flat(Flat(v))]
         ELSE [shape |-> <<Len(v), Len(v[1])>>, vals |-> Flat(v)]

\* '%.18e' % x and float(field): 18 digits after the point keep a double exactly
Fmt(x) == [txt |-> x]

Parse(f) == f.txt

\* np.savetxt(ffp, X): a 1-D array is written as one column, a 2-D array row
\* by row, any other array raises
SaveTxt(a) ==
    IF Len(a.shape) \notin {1, 2} THEN [err |-> "ValueError", lines |-> <<>>]
    ELSE LET rows == a.shape[1]
             cols == IF Len(a.shape) = 1 THEN 1 ELSE a.shape[2]
         IN [err |-> "",
             lines |-> [i \in 1..rows |-> [j \in 1..cols |-> Fmt(a.vals[(i - 1) * cols + j])]]]

\* np.squeeze: the axes of length one are dropped
Squeeze(shape) == SelectSeq(shape, LAMBDA d : d # 1)

\* np.loadtxt(ffp): the lines as a rows x fields array, squeezed (ndmin=0)
LoadTxt(lines) ==
    [shape |-> Squeeze(<<Len(lines), Len(lines[1])>>),
     vals |-> Flat([i \in 1..Len(lines) |-> [j \in 1..Len(lines[i]) |-> Parse(lines[i][j])]])]

\* list(od): the kinds in the order they were reduced, then 'time'
ItemsOf(od, o) ==
    SelectSeq([i \in 1..Len(o) |-> o[i].k], LAMBDA k : k \in DOMAIN od)
        \o (IF "time" \in DOMAIN od THEN <<"time">> ELSE <<>>)

\* for item in od: np.savetxt(self.cache_path + f'{item}.txt', od[item])
RECURSIVE WriteFrom(_, _, _, _, _)
WriteFrom(fs, cx, od, items, i) ==
    IF i > Len(items) \/ fs.err # "" THEN fs
    ELSE LET w == SaveTxt(AsArray(cx, items[i], od[items[i]]))
         IN IF w.err # "" THEN [fs EXCEPT !.err = w.err]
            ELSE WriteFrom([fs EXCEPT !.files = Put(@, items[i], w.lines)], cx, od, items, i + 1)

\* the loop of results_to_files over the dictionary od: [files, err]
results_to_files(fs, cx, od) ==
    WriteFrom([files |-> fs, err |-> ""], cx, od, ItemsOf(od, cx.outs), 1)

\* outs = ['ACCX', 'TAU', 'STRS', 'time'] when load_results_from_files gets None
DefaultItems == <<"ACCX", "TAU", "STRS", "time">>

\* for item in outs: od[item] = np.loadtxt(self.cache_path + f'{item}.txt')
RECURSIVE LoadFrom(_, _, _, _)
LoadFrom(ld, fs, items, i) ==
    IF i > Len(items) \/ ld.err # "" THEN ld
    ELSE IF items[i] \notin DOMAIN fs
         THEN [ld EXCEPT !.err = "FileNotFoundError", !.od = EmptyMap]
         ELSE LoadFrom([ld EXCEPT !.od = Put(@, items[i], LoadTxt(fs[items[i]]))], fs, items, i + 1)

\* load_results_from_files(outs) as a whole: [done, items, od, err]
load_results_from_files(fs, items) ==
    LoadFrom([done |-> TRUE, items |-> items, od |-> EmptyMap, err |-> ""], fs, items, 1)

----------------------------------------------------------------------------
(* The solver's clock and the recorders' sampling *)

CommitAlways(c, d, rdt) == [t |-> c.t + d, n |-> c.n + 1, next |-> c.t + d + rdt]

CommitDouble(c, d, rdt) ==
    LET t1 == c.t + 2 * d
    IN IF t1 >= c.next
       THEN [t |-> t1, n |-> c.n + 1, next |-> t1 + rdt]
       ELSE [t |-> t1, n |-> c.n, next |-> c.next]

\* one committed step of d ticks: every recorder writes a sample when the new
\* time has reached its next recording time, then waits rec_dt
Commit(c, d, rdt) ==
    LET t1 == c.t + d
    IN IF t1 >= c.next
       THEN [t |-> t1, n |-> c.n + 1, next |-> t1 + rdt]
       ELSE [t |-> t1, n |-> c.n, next |-> c.next]

RECURSIVE Commits(_, _, _, _)
Commits(c, k, d, rdt) == IF k = 0 THEN c ELSE Commits(Commit(c, d, rdt), k - 1, d, rdt)

----------------------------------------------------------------------------
(* The inputs of run_sra *)

\* a column of n elements: uniform, or with a thick first layer of another material
Profile(n, layered, hl) ==
    [thick |-> [i \in 1..n |-> IF layered /\ i = 1 THEN 4 ELSE 2],
     mats  |-> [i \in 1..n |-> IF layered /\ i = 1 THEN "ElasticIsotropic"
                                                   ELSE "PressureIndependMultiYield"],
     hloads |-> hl]

\* a column of elements of the given materials
ProfileOf(mats) == [thick |-> [i \in DOMAIN mats |-> 2], mats |-> mats, hloads |-> "absent"]

\* the materials build_model takes the element material type from
MatTypes == {"PressureIndependMultiYield", "ElasticIsotropic", "PressureDependMultiYield",
             "PM4Sand"}

\* the explicit depth list a kind is requested with
DepthList(k) ==
    CASE k = "ACCX"  -> <<-3, 0>>
      [] k = "DISPX" -> <<-4>>
      [] k = "TAU"   -> <<-4, -2>>
      [] k = "STRS"  -> <<-2, -7>>
      [] k = "TAUX"  -> <<-2>>
      [] k = "STRSX" -> <<-2>>

\* the request with the kinds of S, in the order of Kinds or in the opposite
\* order, those of A asked for with 'all' and the others with their depth list
Request(S, A, rev) ==
    LET ks == SelectSeq(Kinds, LAMBDA k : k \in S)
        o  == [i \in 1..Len(ks) |->
                  [k |-> ks[i], req |-> IF ks[i] \in A THEN All ELSE Explicit(DepthList(ks[i]))]]
    IN IF rev THEN Reverse(o) ELSE o

OutsSet ==
    {Request(S, A, rev) : <<S, A, rev>> \in
        {x \in (SUBSET Range(Kinds)) \X (SUBSET Range(Kinds)) \X BOOLEAN :
            /\ x[1] # {} /\ Cardinality(x[1]) <= MaxOuts
            /\ x[2] \subseteq x[1]}}

\* the requests of the runs whose timing and stages are varied
OutsFew ==
    { Request({"ACCX"}, {"ACCX"}, FALSE),
      Request({"TAU"}, {}, FALSE),
      Request({"ACCX", "TAU"}, {"ACCX", "TAU"}, FALSE),
      Request({"DISPX", "STRSX"}, {"DISPX", "STRSX"}, TRUE),
      Request({"TAUX", "STRS"}, {"TAUX", "STRS"}, FALSE) }

Args(o, T, rdt, adt) == [outs |-> o, analysis_time |-> T, rec_dt |-> rdt, asig_dt |-> adt]

\* the elements build_model creates: o3.element.SSPquadUP for every layer
BuiltEles(p) == [i \in 1..Len(p.thick) |-> "SSPquadUP"]

\* a run: the profile, the elements, base_imp, cache_path, the arguments of
\* execute_dynamic and the failures the solver may report
RunOn(p, e, b, c, a, f) ==
    [sp |-> p, eles |-> e, base_imp |-> b, cache_path |-> c, args |-> a, faults |-> f]

\* a run of run_sra
Run(p, b, c, a, f) == RunOn(p, BuiltEles(p), b, c, a, f)

\* every request on every column, with the default timing and no solver failure
RunsRegistry ==
    {Run(Profile(n, l, "absent"), -1, FALSE, Args(o, 2 * analysis_dt, 0, analysis_dt), 0) :
        <<n, l, o>> \in (1..MaxEles) \X BOOLEAN \X OutsSet}

\* every timing and every solver outcome, on one column
RunsTiming ==
    {Run(Profile(2, FALSE, "absent"), -1, FALSE,
         Args(o, k * (analysis_dt \div 2), rdt, adt), MaxFail) :
        <<o, k, rdt, adt>> \in OutsFew \X (1..MaxTime) \X {0, 2 * analysis_dt}
                                \X {analysis_dt, 3 * analysis_dt}}

\* every base impedance mode, load state and cache setting, on one column
RunsStages ==
    {Run(Profile(2, FALSE, hl), b, c, Args(o, 2 * analysis_dt, 0, analysis_dt), 0) :
        <<hl, b, c, o>> \in {"absent", "empty", "loads"} \X {-1, 0, 1} \X BOOLEAN \X OutsFew}

\* the requests of the runs whose elements are varied
OutsEles ==
    { Request({"TAU"}, {"TAU"}, FALSE),
      Request({"TAU"}, {}, FALSE),
      Request({"STRS"}, {"STRS"}, FALSE),
      Request({"STRS"}, {}, FALSE),
      Request({"TAU", "STRS"}, {"TAU", "STRS"}, FALSE),
      Request({"TAU", "STRS"}, {"TAU"}, TRUE),
      Request({"ACCX", "TAU"}, {"ACCX", "TAU"}, FALSE) }

\* a caller of start_recorders that built the column with elements of its
\* own: both supported formulations and one that is neither
RunsEles ==
    {RunOn(Profile(2, FALSE, "absent"), e, -1, FALSE, Args(o, 2 * analysis_dt, 0, analysis_dt), 0) :
        <<e, o>> \in {<<"SSPquad", "SSPquadUP">>, <<"Quad", "SSPquadUP">>, <<"SSPquad", "Quad">>}
                      \X OutsEles}

\* the requests of the runs whose materials are varied
OutsMats ==
    { Request({"TAU"}, {"TAU"}, FALSE),
      Request({"STRS"}, {"STRS"}, FALSE),
      Request({"TAU", "STRS"}, {"TAU", "STRS"}, FALSE),
      Request({"TAU", "STRS"}, {"TAU", "STRS"}, TRUE) }

\* every pair of materials in a two-element column
RunsMats ==
    {Run(ProfileOf(<<m1, m2>>), -1, FALSE, Args(o, 2 * analysis_dt, 0, analysis_dt), 0) :
        <<m1, m2, o>> \in MatTypes \X MatTypes \X OutsMats}

\* the runs that write their results to files, on a column of one element
RunsCache ==
    {Run(Profile(1, FALSE, "absent"), -1, TRUE, Args(o, 2 * analysis_dt, 0, analysis_dt), 0) :
        o \in OutsFew \cup {Request({"ACCX"}, {}, FALSE)}}

Runs == RunsRegistry \cup RunsTiming \cup RunsStages \cup RunsEles \cup RunsMats \cup RunsCache

----------------------------------------------------------------------------
(* State machine *)

\* load_results_from_files has not been called
NotLoaded == [done |-> FALSE, items |-> <<>>, od |-> EmptyMap, err |-> ""]

\* the state after SRA1D.__init__ for a run of the set R
InitOf(R) ==
    \E r \in R :
        /\ pc = "constructed"
        /\ sp = r.sp
        /\ eles = r.eles
        /\ base_imp = r.base_imp
        /\ cache_path = r.cache_path
        /\ args = r.args
        /\ faults = r.faults
        /\ rec_dt = 0
        /\ t = 0
        /\ nSamples = 0
        /\ nextRec = 0
        /\ calls = <<>>
        /\ wiped = FALSE
        /\ recs = <<>>
        /\ ods = EmptyMap
        /\ armed = FALSE
        /\ polls = <<>>
        /\ unlinked = {}
        /\ out_dict = EmptyMap
        /\ reduced = FALSE
        /\ nCalls = 0
        /\ files = EmptyMap
        /\ loaded = NotLoaded
        /\ err = ""

Init == InitOf(Runs)

inputs == <<sp, eles, base_imp, cache_path, args>>
clock == <<t, nSamples, nextRec>>
registry == <<recs, ods, armed>>
reducer == <<polls, unlinked, out_dict, reduced, nCalls>>
cache == <<files, loaded>>

\* build_model: with base_imp > 0 the dashpot coefficient reads a local that
\* is only assigned when base_imp == 0
BuildModel ==
    /\ pc = "constructed"
    /\ IF base_imp > 0
       THEN pc' = "failed" /\ err' = "UnboundLocalError"
       ELSE pc' = "built" /\ err' = err
    /\ UNCHANGED <<inputs, rec_dt, clock, calls, wiped, registry, reducer, cache, faults>>

ExecuteStatic ==
    /\ pc = "built"
    /\ pc' = "static"
    /\ UNCHANGED <<inputs, rec_dt, clock, calls, wiped, registry, reducer, cache, faults, err>>

\* run_sra: if hasattr(sra_1d.sp, 'hloads'): sra_1d.apply_loads()
ApplyLoads ==
    /\ pc = "static"
    /\ sp.hloads # "absent"
    /\ pc' = "biased"
    /\ UNCHANGED <<inputs, rec_dt, clock, calls, wiped, registry, reducer, cache, faults, err>>

\* execute_dynamic up to start_recorders
ArmRecorders ==
    /\ \/ pc = "static" /\ sp.hloads = "absent"
       \/ pc = "biased"
    /\ rec_dt' = IF args.rec_dt = 0 THEN args.asig_dt ELSE args.rec_dt
    /\ t' = 0 /\ nSamples' = 0 /\ nextRec' = 0
    /\ LET st == start_recorders(args.outs, sp.thick, eles)
       IN /\ recs' = st.recs
          /\ polls' = [h \in 1..Len(st.recs) |-> 0]
          /\ IF st.err # ""
             THEN pc' = "failed" /\ err' = st.err /\ ods' = ods /\ armed' = FALSE
             ELSE pc' = "armed" /\ err' = err /\ ods' = st.ods /\ armed' = TRUE
    /\ UNCHANGED <<inputs, calls, wiped, unlinked, out_dict, reduced, nCalls, cache, faults>>

\* the input motion and o3.record: the compliant base reads self.c_base, which
\* nothing sets
ApplyInput ==
    /\ pc = "armed"
    /\ IF base_imp < 0
       THEN /\ pc' = "loop" /\ err' = err
            /\ nSamples' = nSamples + 1 /\ nextRec' = t + rec_dt
       ELSE /\ pc' = "failed" /\ err' = "AttributeError"
            /\ UNCHANGED <<nSamples, nextRec>>
    /\ UNCHANGED <<inputs, rec_dt, t, calls, wiped, registry, reducer, cache, faults>>

Call(n, d, ok) == [n |-> n, dt |-> d, ok |-> ok]

\* while get_time() - init_time < analysis_time: if o3.analyze(osi, 1, analysis_dt): ...
FullStep ==
    /\ pc = "loop"
    /\ t < args.analysis_time
    /\ \/ /\ LET c == Commit([t |-> t, n |-> nSamples, next |-> nextRec], analysis_dt, rec_dt)
             IN t' = c.t /\ nSamples' = c.n /\ nextRec' = c.next
          /\ calls' = Append(calls, Call(1, analysis_dt, TRUE))
          /\ pc' = "loop"
          /\ faults' = faults
       \/ /\ faults > 0
          /\ faults' = faults - 1
          /\ calls' = Append(calls, Call(1, analysis_dt, FALSE))
          /\ pc' = "retry"
          /\ UNCHANGED clock
    /\ UNCHANGED <<inputs, rec_dt, wiped, registry, reducer, cache, err>>

\* the substeps at which the retry may fail
FailPoints == {0, NSub \div 2, NSub - 1}

AfterRetryContinue(ok) == "loop"

\* where the loop goes after the retry: "break" when it failed
AfterRetry(ok) == IF ok THEN "loop" ELSE "break"

\* if o3.analyze(osi, 10, analysis_dt / 10): break
SubSteps ==
    /\ pc = "retry"
    /\ \E k \in FailPoints \cup {NSub} :
          /\ LET c == Commits([t |-> t, n |-> nSamples, next |-> nextRec], k, 1, rec_dt)
             IN t' = c.t /\ nSamples' = c.n /\ nextRec' = c.next
          /\ calls' = Append(calls, Call(NSub, 1, k = NSub))
          /\ pc' = AfterRetry(k = NSub)
    /\ UNCHANGED <<inputs, rec_dt, wiped, registry, reducer, cache, faults, err>>

\* o3.wipe(osi), once the loop has ended
Wipe ==
    /\ \/ pc = "loop" /\ t >= args.analysis_time
       \/ pc = "break"
    /\ pc' = "wiped"
    /\ wiped' = TRUE
    /\ UNCHANGED <<inputs, rec_dt, clock, calls, registry, reducer, cache, faults, err>>

Context == [ods |-> ods, recs |-> recs, mats |-> sp.mats, th |-> sp.thick,
            n |-> nSamples, rec_dt |-> rec_dt, outs |-> args.outs]

Outputs == [od |-> out_dict, polls |-> polls, unlinked |-> unlinked, err |-> "",
            reduced |-> reduced]

CallResultsToDict(r) ==
    /\ out_dict' = r.od
    /\ polls' = r.polls
    /\ unlinked' = r.unlinked
    /\ reduced' = r.reduced
    /\ nCalls' = nCalls + 1

ReduceReadyEarly == pc \in {"break", "wiped"}

\* execute_dynamic reaches results_to_dict after o3.wipe(osi)
ReduceReady == pc = "wiped"

\* self.out_dict = self.o3sra_outs.results_to_dict()
ReduceInRun ==
    /\ ReduceReady
    /\ LET r == results_to_dict(Outputs, Context)
       IN /\ CallResultsToDict(r)
          /\ IF r.err # ""
             THEN pc' = "failed" /\ err' = r.err
             ELSE pc' = (IF cache_path THEN "caching" ELSE "done") /\ err' = err
    /\ UNCHANGED <<inputs, rec_dt, clock, calls, wiped, registry, cache, faults>>

\* if self.cache_path: self.o3sra_outs.results_to_files()
ResultsToFiles ==
    /\ pc = "caching"
    /\ LET r == results_to_dict(Outputs, Context)
           w == results_to_files(files, Context, r.od)
       IN /\ CallResultsToDict(r)
          /\ IF r.err # ""
             THEN pc' = "failed" /\ err' = r.err /\ files' = files
             ELSE /\ files' = w.files
                  /\ IF w.err # ""
                     THEN pc' = "failed" /\ err' = w.err
                     ELSE pc' = "done" /\ err' = err
    /\ UNCHANGED <<inputs, rec_dt, clock, calls, wiped, registry, loaded, faults>>

\* a client calls sra_1d.o3sra_outs.load_results_from_files() after the run,
\* for the written items or with the default outs=None
LoadResultsFromFiles ==
    /\ pc = "done"
    /\ cache_path
    /\ ~loaded.done
    /\ \E items \in {ItemsOf(out_dict, args.outs), DefaultItems} :
          loaded' = load_results_from_files(files, items)
    /\ UNCHANGED <<pc, inputs, rec_dt, clock, calls, wiped, registry, reducer, files, faults, err>>

\* a client calls sra_1d.o3sra_outs.results_to_dict() after the run
ClientResultsToDict ==
    /\ pc \in {"done", "failed"}
    /\ nCalls >= 1
    /\ nCalls < MaxExtraCalls + 2
    /\ LET r == results_to_dict(Outputs, Context)
       IN CallResultsToDict(r)
    /\ UNCHANGED <<pc, inputs, rec_dt, clock, calls, wiped, registry, cache, faults, err>>

Next ==
    \/ BuildModel
    \/ ExecuteStatic
    \/ ApplyLoads
    \/ ArmRecorders
    \/ ApplyInput
    \/ FullStep
    \/ SubSteps
    \/ Wipe
    \/ ReduceInRun
    \/ ResultsToFiles
    \/ LoadResultsFromFiles
    \/ ClientResultsToDict

Spec == Init /\ [][Next]_vars

----------------------------------------------------------------------------
(* Properties *)

\* the reduction of the run has returned without raising
Returned == pc \in {"caching", "done"}

\* the stepping loop was left by the break
Aborted == calls # <<>> /\ calls[Len(calls)] = Call(NSub, 1, FALSE)

Layered == Len(sp.thick) >= 2 /\ sp.thick[1] # sp.thick[2]

\* the recorder kind and the candidate depths of an explicitly located kind
ResOf(k) == CASE k = "ACCX" -> "accel" [] k = "TAU" -> "stress" [] k = "STRS" -> "strain"

CandidateDepths(k) == IF k = "ACCX" THEN node_depths(sp.thick) ELSE ele_depths(sp.thick)

ExplicitKinds == {k \in {"ACCX", "TAU", "STRS"} : HasKey(args.outs, k) /\ ~Get(args.outs, k).all}

\* the raw values row i of the array of an explicitly located kind is made of
RowValues(k, row) ==
    IF k = "ACCX" THEN UNION {Range(row[s]) : s \in DOMAIN row} ELSE Range(row)

\* C1: once results_to_dict has returned, the array of every kind requested
\* with 'all' has one row per node row (ACCX, DISPX) or per element (TAU, STRS)
C1_AllRows ==
    Returned =>
        \A k \in {"ACCX", "DISPX", "TAU", "STRS"} :
            IsAll(args.outs, k) =>
                /\ k \in DOMAIN out_dict
                /\ Len(out_dict[k]) = IF k \in {"ACCX", "DISPX"}
                                      THEN n_node_rows(sp.thick) ELSE Len(sp.thick)

C1_Witness ==
    /\ pc = "done" /\ Layered /\ Len(sp.thick) = 3
    /\ IsAll(args.outs, "TAU") /\ IsAll(args.outs, "DISPX")
    /\ Len(out_dict["TAU"]) = 3 /\ Len(out_dict["DISPX"]) = 4

\* C2: for an explicit depth list of ACCX, TAU or STRS the registry holds one
\* single-location handle per requested depth, in request order, each at a
\* node (element) no other node (element) is strictly closer to the depth than,
\* and row i of the reduced array is made of values of handle i only
C2_ExplicitNearest ==
    armed =>
        \A k \in ExplicitKinds :
            LET ds == Get(args.outs, k).depths
                cand == CandidateDepths(k)
            IN /\ k \in DOMAIN ods /\ ods[k].list /\ Len(ods[k].hs) = Len(ds)
               /\ \A i \in DOMAIN ds :
                     LET r == recs[ods[k].hs[i]]
                     IN /\ ~r.batched /\ r.res = ResOf(k)
                        /\ \A j \in DOMAIN cand :
                              Abs(cand[j] - ds[i]) >= Abs(cand[r.locs[1]] - ds[i])
               /\ (Returned /\ k \in DOMAIN out_dict) =>
                     /\ Len(out_dict[k]) = Len(ds)
                     /\ \A i \in DOMAIN ds :
                           /\ RowValues(k, out_dict[k][i]) # {}
                           /\ \A v \in RowValues(k, out_dict[k][i]) :
                                 /\ v.res = ResOf(k)
                                 /\ v.loc = recs[ods[k].hs[i]].locs[1]

C2_Witness ==
    /\ pc = "done" /\ Layered /\ Len(sp.thick) = 3
    /\ ExplicitKinds = {"ACCX", "TAU"}
    /\ recs[ods["TAU"].hs[1]].locs = <<2>> /\ recs[ods["TAU"].hs[2]].locs = <<1>>
    /\ Len(out_dict["TAU"]) = 2 /\ Len(out_dict["ACCX"]) = 2

\* C3: when two nodes (elements) are equally near a requested depth and none
\* is nearer, the handle is at the first of them in column order, the shallower
C3_TieFirst ==
    armed =>
        \A k \in ExplicitKinds :
            LET ds == Get(args.outs, k).depths
                cand == CandidateDepths(k)
            IN \A i \in DOMAIN ds :
                  LET sel == recs[ods[k].hs[i]].locs[1]
                  IN \A j \in DOMAIN cand :
                        (j # sel /\ Abs(cand[j] - ds[i]) = Abs(cand[sel] - ds[i]))
                            => (sel < j /\ cand[sel] > cand[j])

\* a stress request at depth 4 on element centres 1, 3, 5 selects the one at 3
C3_Witness ==
    /\ armed /\ "TAU" \in ExplicitKinds
    /\ ele_depths(sp.thick) = <<-1, -3, -5>>
    /\ Get(args.outs, "TAU").depths[1] = -4
    /\ recs[ods["TAU"].hs[1]].locs = <<2>>

\* C4: a results_to_dict call made after the first one has returned leaves
\* the result set as it was and polls no recorder
C4_Memoised ==
    [][(Returned /\ nCalls >= 1 /\ nCalls' = nCalls + 1)
          => (out_dict' = out_dict /\ polls' = polls /\ unlinked' = unlinked)]_vars

C4_Witness ==
    /\ pc = "done" /\ cache_path /\ nCalls = 4
    /\ \E h \in DOMAIN polls : polls[h] = 1
    /\ "time" \in DOMAIN out_dict

\* C5: the TAUX and the STRSX array have one row less than there are node rows
C5_IntervalRows ==
    \A k \in {"TAUX", "STRSX"} :
        (reduced /\ k \in DOMAIN out_dict) => Len(out_dict[k]) = n_node_rows(sp.thick) - 1

C5_Witness ==
    /\ pc = "done" /\ n_node_rows(sp.thick) = 4
    /\ IsAll(args.outs, "TAUX") /\ IsAll(args.outs, "STRSX")
    /\ Len(out_dict["TAUX"]) = 3 /\ Len(out_dict["STRSX"]) = 3

DispAllRecorders == {h \in DOMAIN recs : recs[h].res = "disp" /\ recs[h].batched}

\* C6: with STRSX 'all' requested, and DISPX either absent or requested with
\* 'all', start_recorders allocates exactly one all-node displacement recorder
C6_OneDispRecorder ==
    (armed /\ IsAll(args.outs, "STRSX")
           /\ (HasKey(args.outs, "DISPX") => IsAll(args.outs, "DISPX")))
        => Cardinality(DispAllRecorders) = 1

C6_Witness ==
    /\ armed
    /\ IsAll(args.outs, "STRSX") /\ IsAll(args.outs, "TAUX") /\ IsAll(args.outs, "DISPX")
    /\ args.outs[1].k = "STRSX"
    /\ Cardinality(DispAllRecorders) = 1

\* C7: once the reduction has produced an ACCX, DISPX, TAU or TAUX array the
\* result set has a 'time' entry with time[i] = i * rec_dt, one per sample
C7_TimeAxis ==
    (Returned /\ \E k \in {"ACCX", "DISPX", "TAU", "TAUX"} : k \in DOMAIN out_dict)
        => /\ "time" \in DOMAIN out_dict
           /\ Len(out_dict["time"]) = nSamples
           /\ \A i \in DOMAIN out_dict["time"] : out_dict["time"][i] = (i - 1) * rec_dt

\* the run reached its target duration with ACCX 'all' reduced
FullRunACCX ==
    /\ Returned /\ ~Aborted /\ IsAll(args.outs, "ACCX")
    /\ "ACCX" \in DOMAIN out_dict /\ "time" \in DOMAIN out_dict

Floor(x, y) == x \div y
Ceil(x, y) == (x + y - 1) \div y

\* len is within one sample of x / y
WithinOne(len, x, y) == Floor(x, y) - 1 <= len /\ len <= Ceil(x, y) + 1

IsFull(c) == c.n = 1 /\ c.dt = analysis_dt
IsSub(c) == c.n = NSub /\ c.dt * NSub = analysis_dt

\* C9: a failed full step is followed by ten substeps of a tenth of its size;
\* substeps that succeed are followed by full steps; after substeps that fail
\* no solver step is made
C9_Retry ==
    /\ pc = "retry" <=> (calls # <<>> /\ IsFull(calls[Len(calls)]) /\ ~calls[Len(calls)].ok)
    /\ \A i \in DOMAIN calls :
          /\ IsFull(calls[i]) \/ IsSub(calls[i])
          /\ (IsFull(calls[i]) /\ ~calls[i].ok /\ i < Len(calls)) => IsSub(calls[i + 1])
          /\ (IsSub(calls[i]) /\ calls[i].ok) =>
                (IF i < Len(calls) THEN IsFull(calls[i + 1]) ELSE pc \notin {"retry", "break"})
          /\ (IsSub(calls[i]) /\ ~calls[i].ok) => (i = Len(calls) /\ pc \notin {"loop", "retry"})

C9_Witness ==
    /\ Len(calls) = 4
    /\ calls[1] = Call(1, analysis_dt, FALSE) /\ calls[2] = Call(NSub, 1, TRUE)
    /\ calls[3] = Call(1, analysis_dt, FALSE) /\ calls[4] = Call(NSub, 1, FALSE)
    /\ pc = "done"

\* C10: after an abort the solver is wiped, the reduction returns without
\* raising and its time array holds the samples captured up to the abort
C10_AbortReduces ==
    (Aborted /\ nCalls >= 1) =>
        /\ pc # "failed"
        /\ "time" \in DOMAIN out_dict => Len(out_dict["time"]) = nSamples

----------------------------------------------------------------------------
(* Stage order *)

\* the stage of run_sra a position belongs to: 1 build, 2 static equilibrium,
\* 3 static load bias, 4 dynamic, 5 finalized; 6 is a run ended by an exception
StageRank(p) ==
    CASE p = "constructed" -> 0
      [] p = "built" -> 1
      [] p = "static" -> 2
      [] p = "biased" -> 3
      [] p \in {"armed", "loop", "retry", "break"} -> 4
      [] p \in {"wiped", "caching", "done"} -> 5
      [] p = "failed" -> 6

\* some recorder handle is polled in this step
SomePoll == \E h \in DOMAIN polls : h \in DOMAIN polls' /\ polls'[h] > polls[h]

\* C11: the stages of a run occur in the order build, static equilibrium,
\* static load bias (which may be skipped), dynamic, finalized and none is
\* entered twice; the solver is stepped only with the recorders armed; a
\* recorder handle is polled only after the stepping loop has ended and the
\* solver has been wiped
C11_StageOrder ==
    [][ /\ StageRank(pc') >= StageRank(pc)
        /\ StageRank(pc') \in {StageRank(pc), StageRank(pc) + 1, 6}
               \/ (pc = "static" /\ pc' \in {"armed", "failed"})
        /\ StageRank(pc') = StageRank(pc) => StageRank(pc) \in {4, 5, 6}
        /\ calls' # calls => armed /\ pc \in {"loop", "retry"}
        /\ SomePoll => wiped /\ StageRank(pc) >= 5 ]_vars

C11_Witness ==
    /\ pc = "done" /\ wiped /\ sp.hloads = "loads"
    /\ calls # <<>> /\ armed
    /\ \E h \in DOMAIN polls : polls[h] > 0

----------------------------------------------------------------------------
(* Element formulations *)

\* start_recorders has been called
ArmTried == rec_dt # 0

Unsupported == \E e \in DOMAIN eles : eles[e] \notin Supported

\* C12: when TAU or STRS is requested and some element is neither SSPquad
\* nor SSPquadUP, start_recorders fails: the recorders are not armed, no
\* recorder of a requested stress or strain kind is allocated and the solver
\* is never stepped
C12_UnsupportedFails ==
    (ArmTried /\ Unsupported /\ \E k \in {"TAU", "STRS"} : HasKey(args.outs, k))
        => /\ ~armed /\ pc = "failed"
           /\ calls = <<>>
           /\ \A k \in {"TAU", "STRS"} : HasKey(args.outs, k) =>
                  \A h \in DOMAIN recs : recs[h].res # ResOf(k)

----------------------------------------------------------------------------
(* Schema lookup *)

\* the rows of the recorder options table for a material in plane strain and
\* the recorder kind of a stress or strain request
MatchCount(mat, k) ==
    Cardinality({i \in DOMAIN df : /\ df[i].mat = mat
                                   /\ df[i].form = "PlaneStrain"
                                   /\ df[i].recorder = ResOf(k)})

\* C13: once the reduction of a batched TAU or STRS recorder has started, it
\* fails (the run ends in an exception with fewer rows than elements) exactly
\* when some element's material has no row or more than one row in the
\* recorder options table for that recorder kind
C13_SchemaLookup ==
    \A k \in {"TAU", "STRS"} :
        (nCalls >= 1 /\ IsAll(args.outs, k) /\ k \in DOMAIN out_dict)
            => ((pc = "failed" /\ Len(out_dict[k]) < Len(sp.mats))
                  <=> \E e \in DOMAIN sp.mats : MatchCount(sp.mats[e], k) # 1)

C13_Witness ==
    /\ nCalls >= 1 /\ IsAll(args.outs, "TAU") /\ "TAU" \in DOMAIN out_dict
    /\ pc = "failed" /\ err = "AssertionError"
    /\ Len(out_dict["TAU"]) = 1
    /\ MatchCount(sp.mats[1], "TAU") = 1 /\ MatchCount(sp.mats[2], "TAU") = 2

----------------------------------------------------------------------------
(* Kinds without a handle *)

\* start_recorders registered no handle for the requested kind k (STRSX 'all'
\* has the all-node displacement handle)
NoHandle(k) ==
    /\ HasKey(args.outs, k)
    /\ k \notin DOMAIN ods
    /\ ~(k = "STRSX" /\ IsAll(args.outs, "STRSX"))

\* C14: for a requested kind without a registered handle, results_to_dict
\* does not raise on the lookup of a handle (KeyError) and its result has no
\* entry for the kind
C14_NoHandleNoEntry ==
    (nCalls >= 1 /\ armed)
        => \A k \in Range(Kinds) :
              NoHandle(k) => /\ k \notin DOMAIN out_dict
                             /\ ~(pc = "failed" /\ err = "KeyError")

----------------------------------------------------------------------------
(* Result cache round trip *)

\* load_results_from_files was called for the items results_to_files wrote
LoadedWritten == loaded.done /\ loaded.items = ItemsOf(out_dict, args.outs)

\* C15: loading the items that results_to_files wrote returns, for every
\* item, an array of the shape and the values of the array in out_dict
C15_RoundTrip ==
    LoadedWritten
        => /\ loaded.err = ""
           /\ \A item \in DOMAIN out_dict :
                  /\ item \in DOMAIN loaded.od
                  /\ loaded.od[item] = AsArray(Context, item, out_dict[item])

----------------------------------------------------------------------------
(* Explicitly located stress and strain, explicitly located displacement *)

\* the full series of the shear channel of element e for kind k
ShearSeries(k, e) ==
    [s \in 1..nSamples |->
        [res |-> ResOf(k), loc |-> e, side |-> 0, ch |-> ShearName(k), s |-> s]]

\* C16: for TAU or STRS requested with a depth list, row i of the array is
\* the full time series of the shear channel of the element nearest to the
\* i-th depth
C16_ExplicitShearSeries ==
    \A k \in {"TAU", "STRS"} :
        (Returned /\ HasKey(args.outs, k) /\ ~IsAll(args.outs, k))
            => /\ k \in DOMAIN out_dict
               /\ \A i \in DOMAIN Get(args.outs, k).depths :
                      out_dict[k][i] =
                          ShearSeries(k, ArgMin(ele_depths(sp.thick), Get(args.outs, k).depths[i]))

\* C17: for DISPX requested with a depth list, start_recorders registers under
\* DISPX one displacement recorder per DISPX depth, at the nearest node,
\* whether or not ACCX is requested, and the result has a DISPX array with one
\* row per depth
C17_DispList ==
    (ArmTried /\ HasKey(args.outs, "DISPX") /\ ~IsAll(args.outs, "DISPX"))
        => LET ds == Get(args.outs, "DISPX").depths
           IN /\ armed
              /\ "DISPX" \in DOMAIN ods /\ ods["DISPX"].list
              /\ Len(ods["DISPX"].hs) = Len(ds)
              /\ \A i \in DOMAIN ds :
                     recs[ods["DISPX"].hs[i]] = Single("disp", ArgMin(node_depths(sp.thick), ds[i]))
              /\ Returned => "DISPX" \in DOMAIN out_dict /\ Len(out_dict["DISPX"]) = Len(ds)

----------------------------------------------------------------------------
(* Batched stress and strain over several materials *)

\* the row of the recorder options table of a material for kind k
TheRow(mat, k) ==
    df[CHOOSE j \in DOMAIN df : /\ df[j].mat = mat
                                /\ df[j].form = "PlaneStrain"
                                /\ df[j].recorder = ResOf(k)]

\* the sum of the block widths of the elements before element i
Offset(i, k) == SumTo([e \in DOMAIN sp.mats |-> Len(TheRow(sp.mats[e], k).outs)], i - 1)

\* C18: a batched TAU or STRS array has one row per element and row i is the
\* raw channel at the sum of the block widths of the elements before i plus
\* the position of the shear channel in element i's channel list
C18_BlockOffsets ==
    \A k \in {"TAU", "STRS"} :
        (Returned /\ IsAll(args.outs, k))
            => /\ k \in DOMAIN out_dict
               /\ Len(out_dict[k]) = Len(sp.mats)
               /\ \A i \in DOMAIN sp.mats :
                      out_dict[k][i] =
                          Vals(Context, ods[k].hs[1])
                              [Offset(i, k) + IndexOf(TheRow(sp.mats[i], k).outs, ShearName(k))]

C18_Witness ==
    /\ Returned /\ IsAll(args.outs, "TAU") /\ "TAU" \in DOMAIN out_dict
    /\ Len(sp.mats) = 3 /\ sp.mats[1] # sp.mats[2]
    /\ Len(TheRow(sp.mats[1], "TAU").outs) # Len(TheRow(sp.mats[2], "TAU").outs)

----------------------------------------------------------------------------
(* Reaction-derived stress *)

\* the reaction recorded at the left (side 1) or right (side 2) node of row j
React(j, side, s) == Num([res |-> "reaction", loc |-> j, side |-> side, ch |-> "x", s |-> s])

----------------------------------------------------------------------------
(* Base impedance modes *)

\* C20: whatever base_imp is, a run fails only after start_recorders was
\* called, and a run whose recorders are armed gets its input applied, steps
\* through the loop and is finalized before anything can fail
C20_BaseModes == pc = "failed" => (ArmTried /\ (armed => wiped))

----------------------------------------------------------------------------
(* Static load bias *)

\* C21: after static equilibrium run_sra enters the static load bias exactly
\* when the profile carries at least one point load; without a point load
\* it goes on to the dynamic stage
C21_BiasIffLoads ==
    [][ (pc = "static" /\ pc' # pc) => (pc' = "biased" <=> sp.hloads = "loads") ]_vars

----------------------------------------------------------------------------
(* Reaction recorder *)

\* position of kind k in the request
KeyIndex(k) == CHOOSE i \in DOMAIN args.outs : args.outs[i].k = k

ReactionRecorders == {h \in DOMAIN recs : recs[h].res = "reaction"}

\* TAUX 'all' is requested and STRSX 'all' is keyed before it
TauxAfterStrsx ==
    /\ IsAll(args.outs, "TAUX") /\ IsAll(args.outs, "STRSX")
    /\ KeyIndex("STRSX") < KeyIndex("TAUX")

\* C22 as stated: with STRSX 'all' already registered, TAUX 'all' allocates
\* no reaction recorder
C22_Original == (armed /\ TauxAfterStrsx) => ReactionRecorders = {}

\* C22: TAUX 'all' always allocates exactly one reaction recorder, over both
\* nodes of every node row and registered under TAUX, whether or not STRSX
\* 'all' is in the request
C22_TauxAlways ==
    (armed /\ IsAll(args.outs, "TAUX"))
        => /\ Cardinality(ReactionRecorders) = 1
           /\ "TAUX" \in DOMAIN ods /\ ~ods["TAUX"].list
           /\ ods["TAUX"].hs[1] \in ReactionRecorders
           /\ recs[ods["TAUX"].hs[1]] = Batched("reaction", n_node_rows(sp.thick))

C22_Witness == armed /\ TauxAfterStrsx /\ Cardinality(ReactionRecorders) = 1

----------------------------------------------------------------------------
(* Failed reductions and shared handles *)

\* C23: whether the reduction returned or raised at a schema lookup, what a
\* later call of results_to_dict returns has an entry for every requested kind
\* with a registered handle, and a batched TAU or STRS entry has a row for
\* every element
C23_NoPartial ==
    (nCalls >= 2 /\ (pc = "failed" => err = "AssertionError"))
        => \A i \in DOMAIN args.outs :
              LET k == args.outs[i].k
              IN (k \in DOMAIN ods)
                   => /\ k \in DOMAIN out_dict
                      /\ ((k \in {"TAU", "STRS"} /\ IsAll(args.outs, k))
                            => Len(out_dict[k]) = Len(sp.mats))

\* C24: no reduction polls a handle whose file a consuming poll has removed
\* (the poll that raises OSError), and with DISPX 'all' and STRSX 'all' both
\* requested a reduction that returns has made both arrays
C24_NoPollAfterConsume ==
    nCalls >= 1
        => /\ err # "OSError"
           /\ ((Returned /\ IsAll(args.outs, "DISPX") /\ IsAll(args.outs, "STRSX"))
                 => {"DISPX", "STRSX"} \subseteq DOMAIN out_dict)

----------------------------------------------------------------------------
(* Termination of the stepping loop *)

\* the runs whose termination is checked: every duration and solver outcome,
\* with and without point loads and result files
RunsLive ==
    {Run(Profile(2, FALSE, hl), -1, c, Args(Request({"ACCX"}, {"ACCX"}, FALSE),
                                            k * (analysis_dt \div 2), 0, analysis_dt), MaxFail) :
        <<hl, c, k>> \in {"absent", "loads"} \X BOOLEAN \X (1..MaxTime)}

\* execute_dynamic keeps running: the loop takes its next step, the retry
\* follows a failed step and o3.wipe follows the loop
LiveSpec ==
    /\ InitOf(RunsLive) /\ [][Next]_vars
    /\ WF_vars(FullStep) /\ WF_vars(SubSteps) /\ WF_vars(Wipe)

\* C25: every pass of the stepping loop either advances the solver time by
\* analysis_dt (directly or through the substeps of the retry) or leaves the
\* loop, and a run that has entered the loop is eventually finalized
C25_LoopTerminates ==
    /\ [][ /\ (pc = "loop" /\ pc' = "loop") => t' = t + analysis_dt
           /\ (pc = "loop" /\ pc' = "retry") => t' = t
           /\ (pc = "retry" /\ pc' = "loop") => t' = t + analysis_dt
           /\ pc = "retry" => pc' \in {"retry", "loop", "break"}
           /\ pc = "break" => pc' \in {"break", "wiped"} ]_vars
    /\ (pc = "loop") ~> wiped

C25_Witness ==
    /\ wiped /\ ~Aborted /\ t >= args.analysis_time
    /\ \E i \in DOMAIN calls : ~calls[i].ok

====
